---- MODULE Spec2Model ----
(***************************************************************************)
(* A model of the chess engine of src/chess_game_Agent.py: the pieces and  *)
(* their move generation, ChessBoard (selection, move application, the     *)
(* random opponent), the notation helpers, the save/load codec and the     *)
(* event handling of main().                                               *)
(*                                                                         *)
(* Piece objects have identity in Python (the board cells and              *)
(* selected_piece hold references), so the model keeps a heap: a piece     *)
(* reference is a positive integer, `None' is 0, and chess_board.pieces    *)
(* maps each live reference to the object's fields.  The program sees of a *)
(* reference only whether it equals another, so the objects are numbered   *)
(* canonically: an object some cell holds is named after the cell its own  *)
(* position names if that cell holds it, else after the first cell holding *)
(* it; the selected object that no cell holds is StaleRef.  Python strings *)
(* that the code builds or indexes (notation) are sequences of             *)
(* one-character strings.                                                  *)
(***************************************************************************)
EXTENDS Integers, Sequences, FiniteSets, TLC

\* ------------------------------------------------------------ constants

BOARD_SIZE == 8

PAWN == "pawn"
ROOK == "rook"
KNIGHT == "knight"
BISHOP == "bishop"
QUEEN == "queen"
KING == "king"

WHITE_PIECE == "white"
BLACK_PIECE == "black"

\* GameMode (the enum's members; their .value is GameModeValue)
SINGLE_PLAYER == "SINGLE_PLAYER"
MULTIPLAYER == "MULTIPLAYER"
\* GameState
MENU == "MENU"
PLAY == "PLAY"

\* Python's None, for a piece reference and for game_mode
None == 0
NoMode == "None"

\* ------------------------------------------------------------ bounds

\* moves are applied only while move_history is shorter than this
MaxMoves == 2
\* of the moves make_ai_move chooses from, the first MaxChoices are drawn
MaxChoices == 2
\* the squares handed to select_piece / move_selected_piece and clicked in
\* main(): the e-file from e7 to e1, and d3
ClickSquares == {<<r, 4>> : r \in 1..(BOARD_SIZE - 1)} \cup {<<5, 3>>}
\* coordinates outside the board, handed to the ChessBoard methods directly
OffBoardSquares == {<<4, BOARD_SIZE>>}

\* ------------------------------------------------------------ helpers

Squares == {<<r, c>> : r \in 0..(BOARD_SIZE - 1), c \in 0..(BOARD_SIZE - 1)}

\* the k-th cell of the row-major scan `for row ... for col ...'
CellAt(k) == <<k \div BOARD_SIZE, k % BOARD_SIZE>>

\* `x in seq' for a Python list
InList(x, seq) == \E i \in 1..Len(seq) : seq[i] = x

RECURSIVE Concat(_)
\* the concatenation of a sequence of sequences
Concat(ss) == IF ss = <<>> THEN <<>> ELSE Head(ss) \o Concat(Tail(ss))

\* Piece(color, piece_type, row, col): a new object's fields
Piece(color, piece_type, row, col) ==
    [color |-> color, piece_type |-> piece_type, row |-> row, col |-> col,
     has_moved |-> FALSE]

\* Piece.is_valid_position
is_valid_position(row, col) ==
    0 <= row /\ row < BOARD_SIZE /\ 0 <= col /\ col < BOARD_SIZE

\* variant of move_to that leaves has_moved as it is
move_to_keeping_has_moved(pieces, p, row, col) ==
    [pieces EXCEPT ![p].row = row, ![p].col = col]

\* Piece.move_to, on the object p of the heap
move_to(pieces, p, row, col) ==
    [pieces EXCEPT ![p] = [@ EXCEPT !.row = row, !.col = col, !.has_moved = TRUE]]

\* ------------------------------------------------------------ move generation

\* variant of PawnMoves whose two-square move ignores the square in between
PawnMovesJumping(board, pieces, p) ==
    LET self == pieces[p]
        direction == IF self.color = WHITE_PIECE THEN 0 - 1 ELSE 1
        r1 == self.row + direction
        r2 == self.row + 2 * direction
        one == is_valid_position(r1, self.col) /\ board[<<r1, self.col>>] = None
        two == ~self.has_moved
               /\ is_valid_position(r2, self.col) /\ board[<<r2, self.col>>] = None
        capture(col_offset) ==
            LET new_col == self.col + col_offset
            IN  IF is_valid_position(r1, new_col)
                   /\ board[<<r1, new_col>>] # None
                   /\ pieces[board[<<r1, new_col>>]].color # self.color
                THEN <<<<r1, new_col>>>> ELSE <<>>
    IN  (IF one THEN <<<<r1, self.col>>>> ELSE <<>>)
        \o (IF two THEN <<<<r2, self.col>>>> ELSE <<>>)
        \o capture(0 - 1) \o capture(1)

\* Pawn.get_legal_moves
PawnMoves(board, pieces, p) ==
    LET self == pieces[p]
        direction == IF self.color = WHITE_PIECE THEN 0 - 1 ELSE 1
        r1 == self.row + direction
        r2 == self.row + 2 * direction
        one == is_valid_position(r1, self.col) /\ board[<<r1, self.col>>] = None
        two == one /\ ~self.has_moved
               /\ is_valid_position(r2, self.col) /\ board[<<r2, self.col>>] = None
        capture(col_offset) ==
            LET new_col == self.col + col_offset
            IN  IF is_valid_position(r1, new_col)
                   /\ board[<<r1, new_col>>] # None
                   /\ pieces[board[<<r1, new_col>>]].color # self.color
                THEN <<<<r1, new_col>>>> ELSE <<>>
    IN  (IF one THEN <<<<r1, self.col>>>> ELSE <<>>)
        \o (IF two THEN <<<<r2, self.col>>>> ELSE <<>>)
        \o capture(0 - 1) \o capture(1)

RECURSIVE RayThroughCaptures(_, _, _, _, _, _)
\* variant of Ray that goes on after a square holding an opposing piece
RayThroughCaptures(board, pieces, p, dr, dc, i) ==
    LET new_row == pieces[p].row + i * dr
        new_col == pieces[p].col + i * dc
    IN  IF i >= BOARD_SIZE \/ ~is_valid_position(new_row, new_col) THEN <<>>
        ELSE LET target == board[<<new_row, new_col>>]
             IN  IF target = None \/ pieces[target].color # pieces[p].color
                 THEN <<<<new_row, new_col>>>>
                      \o RayThroughCaptures(board, pieces, p, dr, dc, i + 1)
                 ELSE <<>>

RECURSIVE Ray(_, _, _, _, _, _)
\* the inner loop `for i in range(1, BOARD_SIZE)' of Rook/Bishop/Queen, from step i
Ray(board, pieces, p, dr, dc, i) ==
    LET new_row == pieces[p].row + i * dr
        new_col == pieces[p].col + i * dc
    IN  IF i >= BOARD_SIZE \/ ~is_valid_position(new_row, new_col) THEN <<>>
        ELSE LET target == board[<<new_row, new_col>>]
             IN  IF target = None
                 THEN <<<<new_row, new_col>>>> \o Ray(board, pieces, p, dr, dc, i + 1)
                 ELSE IF pieces[target].color # pieces[p].color
                      THEN <<<<new_row, new_col>>>>
                      ELSE <<>>

\* the outer loop `for dr, dc in directions'
SlidingMoves(board, pieces, p, directions) ==
    Concat([d \in 1..Len(directions) |->
              Ray(board, pieces, p, directions[d][1], directions[d][2], 1)])

\* variant of StepMoves that takes every offset square of the board
StepMovesOntoOwn(board, pieces, p, offsets) ==
    Concat([d \in 1..Len(offsets) |->
              LET new_row == pieces[p].row + offsets[d][1]
                  new_col == pieces[p].col + offsets[d][2]
              IN  IF ~is_valid_position(new_row, new_col) THEN <<>>
                  ELSE <<<<new_row, new_col>>>>])

\* the loop of Knight and King: one step per offset
StepMoves(board, pieces, p, offsets) ==
    Concat([d \in 1..Len(offsets) |->
              LET new_row == pieces[p].row + offsets[d][1]
                  new_col == pieces[p].col + offsets[d][2]
              IN  IF ~is_valid_position(new_row, new_col) THEN <<>>
                  ELSE LET target == board[<<new_row, new_col>>]
                       IN  IF target = None \/ pieces[target].color # pieces[p].color
                           THEN <<<<new_row, new_col>>>> ELSE <<>>])

RookDirections == <<<<0, 1>>, <<1, 0>>, <<0, 0 - 1>>, <<0 - 1, 0>>>>
BishopDirections == <<<<1, 1>>, <<1, 0 - 1>>, <<0 - 1, 1>>, <<0 - 1, 0 - 1>>>>
QueenDirections == RookDirections \o BishopDirections
KingDirections == RookDirections \o BishopDirections
KnightOffsets ==
    <<<<0 - 2, 0 - 1>>, <<0 - 2, 1>>, <<0 - 1, 0 - 2>>, <<0 - 1, 2>>,
      <<1, 0 - 2>>, <<1, 2>>, <<2, 0 - 1>>, <<2, 1>>>>

\* variant of RookMoves that leaves out the last direction
RookMovesThreeDirections(board, pieces, p) ==
    SlidingMoves(board, pieces, p, SubSeq(RookDirections, 1, 3))

\* Rook.get_legal_moves
RookMoves(board, pieces, p) == SlidingMoves(board, pieces, p, RookDirections)
\* Bishop.get_legal_moves
BishopMoves(board, pieces, p) == SlidingMoves(board, pieces, p, BishopDirections)
\* Queen.get_legal_moves
QueenMoves(board, pieces, p) == SlidingMoves(board, pieces, p, QueenDirections)
\* Knight.get_legal_moves
KnightMoves(board, pieces, p) == StepMoves(board, pieces, p, KnightOffsets)
\* King.get_legal_moves
KingMoves(board, pieces, p) == StepMoves(board, pieces, p, KingDirections)

\* piece.get_legal_moves(board): the dispatch on the object's class
get_legal_moves(board, pieces, p) ==
    CASE pieces[p].piece_type = PAWN -> PawnMoves(board, pieces, p)
      [] pieces[p].piece_type = ROOK -> RookMoves(board, pieces, p)
      [] pieces[p].piece_type = KNIGHT -> KnightMoves(board, pieces, p)
      [] pieces[p].piece_type = BISHOP -> BishopMoves(board, pieces, p)
      [] pieces[p].piece_type = QUEEN -> QueenMoves(board, pieces, p)
      [] pieces[p].piece_type = KING -> KingMoves(board, pieces, p)

\* ------------------------------------------------------------ notation

FileLetters == <<"a", "b", "c", "d", "e", "f", "g", "h">>
Digits == <<"0", "1", "2", "3", "4", "5", "6", "7", "8", "9">>

\* chr(ord('a') + col), for the columns of the board
FileChar(col) == FileLetters[col + 1]
\* str(n), for a one-digit n
Str(n) == Digits[n + 1]

\* get_algebraic_notation
get_algebraic_notation(row, col) == <<FileChar(col), Str(8 - row)>>

\* ord(file) - ord('a'), for the file letters of the board
FileIndex(ch) == CHOOSE i \in 0..(BOARD_SIZE - 1) : FileLetters[i + 1] = ch
\* int(rank), for a one-digit string
int(d) == CHOOSE n \in 0..9 : Digits[n + 1] = d

\* variant of get_board_coordinates that returns the column first
get_board_coordinates_column_first(algebraic) ==
    <<FileIndex(algebraic[1]), 8 - int(algebraic[2])>>

\* get_board_coordinates
get_board_coordinates(algebraic) == <<8 - int(algebraic[2]), FileIndex(algebraic[1])>>

\* get_piece_notation
get_piece_notation(piece) ==
    CASE piece.piece_type = PAWN -> <<>>
      [] piece.piece_type = KNIGHT -> <<"N">>
      [] piece.piece_type = BISHOP -> <<"B">>
      [] piece.piece_type = ROOK -> <<"R">>
      [] piece.piece_type = QUEEN -> <<"Q">>
      [] piece.piece_type = KING -> <<"K">>
      [] OTHER -> <<>>

\* variant of get_move_notation whose pawn capture names the destination file
get_move_notation_destination_file(start_row, start_col, end_row, end_col, piece, is_capture) ==
    LET piece_letter == get_piece_notation(piece)
        end_square == get_algebraic_notation(end_row, end_col)
    IN  IF piece.piece_type = PAWN
        THEN IF is_capture THEN <<end_square[1], "x">> \o end_square
             ELSE end_square
        ELSE IF is_capture THEN piece_letter \o <<"x">> \o end_square
             ELSE piece_letter \o end_square

\* get_move_notation
get_move_notation(start_row, start_col, end_row, end_col, piece, is_capture) ==
    LET piece_letter == get_piece_notation(piece)
        start_square == get_algebraic_notation(start_row, start_col)
        end_square == get_algebraic_notation(end_row, end_col)
    IN  IF piece.piece_type = PAWN
        THEN IF is_capture THEN <<start_square[1], "x">> \o end_square
             ELSE end_square
        ELSE IF is_capture THEN piece_letter \o <<"x">> \o end_square
             ELSE piece_letter \o end_square

\* ------------------------------------------------------------ ChessBoard

\* the reference of the object held by the cell (row, col)
NewRef(row, col) == BOARD_SIZE * row + col + 1
\* the reference of the selected object when no cell holds it
StaleRef == BOARD_SIZE * BOARD_SIZE + 1

\* the piece type setup_pieces puts on column col of a back rank
BackRank == <<ROOK, KNIGHT, BISHOP, QUEEN, KING, BISHOP, KNIGHT, ROOK>>

\* ChessBoard.setup_pieces: the cells it fills, as (color, piece_type) per square
setup_pieces(row, col) ==
    CASE row = 1 -> <<BLACK_PIECE, PAWN>>
      [] row = 6 -> <<WHITE_PIECE, PAWN>>
      [] row = 0 -> <<BLACK_PIECE, BackRank[col + 1]>>
      [] row = 7 -> <<WHITE_PIECE, BackRank[col + 1]>>
      [] OTHER -> <<>>

\* ChessBoard.__init__: the object ChessBoard() returns
ChessBoard ==
    [board |-> [sq \in Squares |->
                  IF setup_pieces(sq[1], sq[2]) # <<>>
                  THEN NewRef(sq[1], sq[2]) ELSE None],
     pieces |-> [p \in {NewRef(sq[1], sq[2]) :
                          sq \in {s \in Squares : setup_pieces(s[1], s[2]) # <<>>}} |->
                  Piece(setup_pieces(CellAt(p - 1)[1], CellAt(p - 1)[2])[1],
                        setup_pieces(CellAt(p - 1)[1], CellAt(p - 1)[2])[2],
                        CellAt(p - 1)[1], CellAt(p - 1)[2])],
     selected_piece |-> None,
     current_player |-> WHITE_PIECE,
     legal_moves |-> <<>>,
     move_history |-> <<>>,
     game_mode |-> NoMode]

\* The heap after a call: the objects no cell and no selection references
\* are gone (the program cannot reach them), and the others carry their
\* canonical names.  CanonicalRef is the name of the object p, None for an
\* object nothing references.
CanonicalRef(cb, p) ==
    IF is_valid_position(cb.pieces[p].row, cb.pieces[p].col)
       /\ cb.board[<<cb.pieces[p].row, cb.pieces[p].col>>] = p
    THEN NewRef(cb.pieces[p].row, cb.pieces[p].col)
    ELSE IF \E sq \in Squares : cb.board[sq] = p
    THEN NewRef(CellAt(CHOOSE k \in 0..(BOARD_SIZE * BOARD_SIZE - 1) :
                         /\ cb.board[CellAt(k)] = p
                         /\ \A i \in 0..(k - 1) : cb.board[CellAt(i)] # p)[1],
                CellAt(CHOOSE k \in 0..(BOARD_SIZE * BOARD_SIZE - 1) :
                         /\ cb.board[CellAt(k)] = p
                         /\ \A i \in 0..(k - 1) : cb.board[CellAt(i)] # p)[2])
    ELSE IF cb.selected_piece = p THEN StaleRef
    ELSE None

\* cb with each object p named name[p]
Renamed(cb, name) ==
    [cb EXCEPT
       !.board = [sq \in Squares |-> IF cb.board[sq] = None THEN None
                                     ELSE name[cb.board[sq]]],
       !.selected_piece = IF @ = None THEN None ELSE name[@],
       !.pieces = [n \in {name[p] : p \in DOMAIN name} \ {None} |->
                     cb.pieces[IF n = StaleRef THEN cb.selected_piece
                               ELSE cb.board[CellAt(n - 1)]]]]

Collect(cb) ==
    IF \A p \in DOMAIN cb.pieces : CanonicalRef(cb, p) = p THEN cb
    ELSE Renamed(cb, [p \in DOMAIN cb.pieces |-> CanonicalRef(cb, p)])

\* ChessBoard.get_piece_at
get_piece_at(cb, row, col) ==
    IF 0 <= row /\ row < BOARD_SIZE /\ 0 <= col /\ col < BOARD_SIZE
    THEN cb.board[<<row, col>>] ELSE None

\* variant of select_piece without the test of the piece's color
select_piece_any_color(cb, row, col) ==
    IF get_piece_at(cb, row, col) # None
    THEN [cb |-> [cb EXCEPT !.selected_piece = get_piece_at(cb, row, col),
                            !.legal_moves = get_legal_moves(cb.board, cb.pieces,
                                                            get_piece_at(cb, row, col))],
          result |-> TRUE]
    ELSE [cb |-> cb, result |-> FALSE]

\* ChessBoard.select_piece: the board after the call and the value returned
select_piece(cb, row, col) ==
    LET piece == get_piece_at(cb, row, col)
    IN  IF piece # None /\ cb.pieces[piece].color = cb.current_player
        THEN [cb |-> [cb EXCEPT !.selected_piece = piece,
                                !.legal_moves = get_legal_moves(cb.board, cb.pieces, piece)],
              result |-> TRUE]
        ELSE [cb |-> cb, result |-> FALSE]

\* variant of MoveSelected that tests for a capture after the board is updated
MoveSelectedCaptureAfterUpdate(cb, row, col) ==
    LET sel == cb.selected_piece
        old_row == cb.pieces[sel].row
        old_col == cb.pieces[sel].col
    IN  [cb |-> [cb EXCEPT
                   !.board = [@ EXCEPT ![<<old_row, old_col>>] = None,
                                       ![<<row, col>>] = sel],
                   !.move_history =
                       Append(@, get_move_notation(old_row, old_col, row, col,
                                                   cb.pieces[sel], TRUE)),
                   !.pieces = move_to(@, sel, row, col),
                   !.current_player = IF cb.current_player = WHITE_PIECE
                                      THEN BLACK_PIECE ELSE WHITE_PIECE,
                   !.selected_piece = None,
                   !.legal_moves = <<>>],
         result |-> TRUE]

\* variant of MoveSelected that puts the piece it finds on (row, col) on the
\* cell the selected piece leaves
MoveSelectedExchanging(cb, row, col) ==
    LET sel == cb.selected_piece
        old_row == cb.pieces[sel].row
        old_col == cb.pieces[sel].col
        found == cb.board[<<row, col>>]
    IN  [cb |-> [cb EXCEPT
                   !.board = [@ EXCEPT ![<<old_row, old_col>>] = found,
                                       ![<<row, col>>] = sel],
                   !.move_history =
                       Append(@, get_move_notation(old_row, old_col, row, col,
                                                   cb.pieces[sel], found # None)),
                   !.pieces = IF found \in {None, sel} THEN move_to(@, sel, row, col)
                              ELSE [move_to(@, sel, row, col) EXCEPT
                                      ![found].row = old_row, ![found].col = old_col],
                   !.current_player = IF cb.current_player = WHITE_PIECE
                                      THEN BLACK_PIECE ELSE WHITE_PIECE,
                   !.selected_piece = None,
                   !.legal_moves = <<>>],
         result |-> TRUE]

\* variant of MoveSelected that hands the turn to Black whoever moved
MoveSelectedTurnToBlack(cb, row, col) ==
    LET sel == cb.selected_piece
        old_row == cb.pieces[sel].row
        old_col == cb.pieces[sel].col
        is_capture == cb.board[<<row, col>>] # None
    IN  [cb |-> [cb EXCEPT
                   !.board = [@ EXCEPT ![<<old_row, old_col>>] = None,
                                       ![<<row, col>>] = sel],
                   !.move_history =
                       Append(@, get_move_notation(old_row, old_col, row, col,
                                                   cb.pieces[sel], is_capture)),
                   !.pieces = move_to(@, sel, row, col),
                   !.current_player = BLACK_PIECE,
                   !.selected_piece = None,
                   !.legal_moves = <<>>],
         result |-> TRUE]

\* move_selected_piece once the move is accepted: the selected piece goes to
\* (row, col)
MoveSelected(cb, row, col) ==
    LET sel == cb.selected_piece
        old_row == cb.pieces[sel].row
        old_col == cb.pieces[sel].col
        is_capture == cb.board[<<row, col>>] # None
    IN  [cb |-> [cb EXCEPT
                   !.board = [@ EXCEPT ![<<old_row, old_col>>] = None,
                                       ![<<row, col>>] = sel],
                   !.move_history =
                       Append(@, get_move_notation(old_row, old_col, row, col,
                                                   cb.pieces[sel], is_capture)),
                   !.pieces = move_to(@, sel, row, col),
                   !.current_player = IF cb.current_player = WHITE_PIECE
                                      THEN BLACK_PIECE ELSE WHITE_PIECE,
                   !.selected_piece = None,
                   !.legal_moves = <<>>],
         result |-> TRUE]

\* variant of move_selected_piece whose rejection drops the selection
move_selected_piece_deselecting(cb, row, col) ==
    IF cb.selected_piece = None THEN [cb |-> cb, result |-> FALSE]
    ELSE IF ~InList(<<row, col>>, cb.legal_moves)
    THEN [cb |-> [cb EXCEPT !.selected_piece = None, !.legal_moves = <<>>],
          result |-> FALSE]
    ELSE MoveSelected(cb, row, col)

\* ChessBoard.move_selected_piece
move_selected_piece(cb, row, col) ==
    IF cb.selected_piece = None THEN [cb |-> cb, result |-> FALSE]
    ELSE IF ~InList(<<row, col>>, cb.legal_moves) THEN [cb |-> cb, result |-> FALSE]
    ELSE MoveSelected(cb, row, col)

\* variant of get_all_valid_moves that scans the cells column by column
get_all_valid_moves_column_major(cb, color) ==
    Concat([n \in 1..(BOARD_SIZE * BOARD_SIZE) |->
              LET piece == cb.board[<<(n - 1) % BOARD_SIZE, (n - 1) \div BOARD_SIZE>>]
              IN  IF piece # None /\ cb.pieces[piece].color = color
                  THEN LET legal == get_legal_moves(cb.board, cb.pieces, piece)
                       IN  [i \in 1..Len(legal) |-> <<piece, legal[i]>>]
                  ELSE <<>>])

\* variant of get_all_valid_moves that passes over the selected piece
get_all_valid_moves_but_selected(cb, color) ==
    Concat([n \in 1..(BOARD_SIZE * BOARD_SIZE) |->
              LET piece == cb.board[CellAt(n - 1)]
              IN  IF piece # None /\ cb.pieces[piece].color = color
                     /\ piece # cb.selected_piece
                  THEN LET legal == get_legal_moves(cb.board, cb.pieces, piece)
                       IN  [i \in 1..Len(legal) |-> <<piece, legal[i]>>]
                  ELSE <<>>])

\* ChessBoard.get_all_valid_moves: the row-major scan of the 64 cells, each
\* piece of the color giving its legal moves in their order
get_all_valid_moves(cb, color) ==
    Concat([n \in 1..(BOARD_SIZE * BOARD_SIZE) |->
              LET piece == cb.board[CellAt(n - 1)]
              IN  IF piece # None /\ cb.pieces[piece].color = color
                  THEN LET legal == get_legal_moves(cb.board, cb.pieces, piece)
                       IN  [i \in 1..Len(legal) |-> <<piece, legal[i]>>]
                  ELSE <<>>])

\* variant of AiMovePiece that starts move_history anew with its move
AiMovePieceRestartingHistory(cb, piece, row, col) ==
    [cb |-> [cb EXCEPT
               !.board = [@ EXCEPT ![<<cb.pieces[piece].row, cb.pieces[piece].col>>] = None,
                                   ![<<row, col>>] = piece],
               !.move_history =
                   <<get_move_notation(cb.pieces[piece].row, cb.pieces[piece].col,
                                       row, col, cb.pieces[piece],
                                       cb.board[<<row, col>>] # None)>>,
               !.pieces = move_to(@, piece, row, col),
               !.current_player = WHITE_PIECE],
     result |-> TRUE]

\* make_ai_move from `piece, move = random.choice(all_moves)' on: the move
\* of `piece' to (row, col)
AiMovePiece(cb, piece, row, col) ==
    LET old_row == cb.pieces[piece].row
        old_col == cb.pieces[piece].col
        is_capture == cb.board[<<row, col>>] # None
    IN  [cb |-> [cb EXCEPT
                   !.board = [@ EXCEPT ![<<old_row, old_col>>] = None,
                                       ![<<row, col>>] = piece],
                   !.move_history =
                       Append(@, get_move_notation(old_row, old_col, row, col,
                                                   cb.pieces[piece], is_capture)),
                   !.pieces = move_to(@, piece, row, col),
                   !.current_player = WHITE_PIECE],
         result |-> TRUE]

\* variant of AiChoose that reports a move when there is none to make
AiChooseReportingMove(cb, all_moves, choice) ==
    IF all_moves = <<>> THEN [cb |-> cb, result |-> TRUE]
    ELSE AiMovePiece(cb, all_moves[choice][1],
                     all_moves[choice][2][1], all_moves[choice][2][2])

\* make_ai_move once all_moves is computed
AiChoose(cb, all_moves, choice) ==
    IF all_moves = <<>> THEN [cb |-> cb, result |-> FALSE]
    ELSE AiMovePiece(cb, all_moves[choice][1],
                     all_moves[choice][2][1], all_moves[choice][2][2])

\* ChessBoard.make_ai_move; `choice' is the index random.choice draws
make_ai_move(cb, choice) ==
    IF cb.current_player # BLACK_PIECE THEN [cb |-> cb, result |-> FALSE]
    ELSE AiChoose(cb, get_all_valid_moves(cb, BLACK_PIECE), choice)

\* the indices random.choice(all_moves) draws here: the first MaxChoices
\* entries of all_moves (1 when the call returns before drawing)
RandomChoices(cb) ==
    IF cb.current_player # BLACK_PIECE THEN {1}
    ELSE {i \in 1..MaxChoices : i = 1 \/ i <= Len(get_all_valid_moves(cb, BLACK_PIECE))}

\* ------------------------------------------------------------ persistence
\* A document (the dict json.dump writes and json.load returns) is a record
\* holding the keys it has; a board cell is [null |-> TRUE] for null or a
\* record of the keys "type", "color", "has_moved" it has; game_mode is <<>>
\* for null and <<v>> for the number v.  json.dump followed by json.load
\* returns an equal dict for these values (strings, booleans, numbers, null,
\* lists and string-keyed objects), so the file holds the document itself.

NullCell == [null |-> TRUE]

\* GameMode.X.value
GameModeValue(mode) == IF mode = SINGLE_PLAYER THEN 0 ELSE 1
\* the values GameMode(v) accepts, and the member it returns
GameModeValues == {0, 1}
GameModeOf(v) == IF v = 0 THEN SINGLE_PLAYER ELSE MULTIPLAYER

PieceTypes == {PAWN, ROOK, KNIGHT, BISHOP, QUEEN, KING}

\* game_to_dict: the dict, or the exception it raises (None has no .value)
game_to_dict(cb) ==
    IF cb.game_mode = NoMode
    THEN [raised |-> TRUE, data |-> [board |-> [sq \in Squares |-> NullCell]]]
    ELSE [raised |-> FALSE,
          data |-> [board |-> [sq \in Squares |->
                                 IF cb.board[sq] = None THEN NullCell
                                 ELSE [color |-> cb.pieces[cb.board[sq]].color,
                                       type |-> cb.pieces[cb.board[sq]].piece_type,
                                       has_moved |-> cb.pieces[cb.board[sq]].has_moved]],
                    current_player |-> cb.current_player,
                    game_mode |-> <<GameModeValue(cb.game_mode)>>,
                    move_history |-> cb.move_history]]

\* The loop of dict_to_game over the 64 cells, in row-major order k = 0..63.
\* `if piece_data is not None:' holds for the cells that are not null
Filled(cells, k) == "null" \notin DOMAIN cells[CellAt(k)]

\* iteration k reaches a constructor: Pawn(color, row, col), ...
Constructs(cells, k) ==
    /\ Filled(cells, k)
    /\ "type" \in DOMAIN cells[CellAt(k)]
    /\ "color" \in DOMAIN cells[CellAt(k)]
    /\ cells[CellAt(k)].type \in PieceTypes

\* the iteration that constructed the object the local `piece' names at the
\* end of iteration k (-1 when `piece' is still unbound)
PieceVar(cells, k) ==
    IF Constructs(cells, k) THEN k
    ELSE IF \A j \in 0..k : ~Constructs(cells, j) THEN 0 - 1
    ELSE CHOOSE j \in 0..k : /\ Constructs(cells, j)
                             /\ \A i \in (j + 1)..k : ~Constructs(cells, i)

\* iteration k raises: the cell lacks "type" or "color" (KeyError), names no
\* piece class while `piece' is unbound (UnboundLocalError), or lacks
\* "has_moved" (KeyError)
Raises(cells, k) ==
    /\ Filled(cells, k)
    /\ \/ "type" \notin DOMAIN cells[CellAt(k)]
       \/ "color" \notin DOMAIN cells[CellAt(k)]
       \/ PieceVar(cells, k) < 0
       \/ "has_moved" \notin DOMAIN cells[CellAt(k)]

\* the first iteration that raises (the number of cells when none does)
StopAt(cells) ==
    IF \A k \in 0..(BOARD_SIZE * BOARD_SIZE - 1) : ~Raises(cells, k)
    THEN BOARD_SIZE * BOARD_SIZE
    ELSE CHOOSE k \in 0..(BOARD_SIZE * BOARD_SIZE - 1) :
            Raises(cells, k) /\ \A i \in 0..(k - 1) : ~Raises(cells, i)

\* the first iteration after j that constructs an object (`stop' when the
\* loop ends before one does)
NextMade(cells, j, stop) ==
    CHOOSE i \in (j + 1)..stop :
        /\ i = stop \/ Constructs(cells, i)
        /\ \A c \in (j + 1)..(i - 1) : ~Constructs(cells, c)

\* the last cell in j..(until - 1) that is not null
LastFilled(cells, j, until) ==
    CHOOSE k \in j..(until - 1) :
        Filled(cells, k) /\ \A i \in (k + 1)..(until - 1) : ~Filled(cells, i)

\* piece.has_moved = piece_data["has_moved"]: the last iteration before
\* `stop' that assigns to the object constructed at j, which `piece' names
\* until the next object is constructed
LastAssigned(cells, j, stop) == LastFilled(cells, j, NextMade(cells, j, stop))

\* the loop run until iteration `stop' raises or the cells end
LoadUntil(cells, cb, stop) ==
    [cb |-> [cb EXCEPT
               !.board = [sq \in Squares |->
                            IF BOARD_SIZE * sq[1] + sq[2] < stop
                               /\ Filled(cells, BOARD_SIZE * sq[1] + sq[2])
                            THEN PieceVar(cells, BOARD_SIZE * sq[1] + sq[2]) + 1
                            ELSE None],
               !.pieces = [p \in (DOMAIN cb.pieces)
                                   \cup {j + 1 : j \in {i \in 0..(stop - 1) :
                                                          Constructs(cells, i)}} |->
                             IF p \in DOMAIN cb.pieces THEN cb.pieces[p]
                             ELSE [Piece(cells[CellAt(p - 1)].color,
                                         cells[CellAt(p - 1)].type,
                                         CellAt(p - 1)[1], CellAt(p - 1)[2])
                                     EXCEPT !.has_moved =
                                       cells[CellAt(LastAssigned(cells, p - 1, stop))].has_moved]]],
     raised |-> stop < BOARD_SIZE * BOARD_SIZE]

LoadCells(cells, cb) == LoadUntil(cells, cb, StopAt(cells))

\* chess_board.board = [[None ...]]: only the selection still holds an object
ClearBoard(cb) ==
    [cb EXCEPT !.board = [sq \in Squares |-> None],
               !.selected_piece = IF @ = None THEN None ELSE StaleRef,
               !.pieces = IF cb.selected_piece = None THEN <<>>
                          ELSE StaleRef :> cb.pieces[cb.selected_piece]]

\* variant of LoadMode that assigns the document's game_mode also when it is null
LoadModeAssigningNull(data, cb) ==
    IF "game_mode" \notin DOMAIN data THEN [cb |-> cb, raised |-> TRUE]
    ELSE IF data.game_mode # <<>> /\ data.game_mode[1] \notin GameModeValues
    THEN [cb |-> cb, raised |-> TRUE]
    ELSE [cb |-> [cb EXCEPT
                    !.game_mode = IF data.game_mode # <<>>
                                  THEN GameModeOf(data.game_mode[1]) ELSE NoMode,
                    !.move_history = IF "move_history" \in DOMAIN data
                                     THEN data.move_history ELSE <<>>],
          raised |-> FALSE]

\* dict_to_game after chess_board.current_player is assigned
LoadMode(data, cb) ==
    IF "game_mode" \notin DOMAIN data THEN [cb |-> cb, raised |-> TRUE]
    ELSE IF data.game_mode # <<>> /\ data.game_mode[1] \notin GameModeValues
    THEN [cb |-> cb, raised |-> TRUE]
    ELSE [cb |-> [cb EXCEPT
                    !.game_mode = IF data.game_mode # <<>>
                                  THEN GameModeOf(data.game_mode[1]) ELSE @,
                    !.move_history = IF "move_history" \in DOMAIN data
                                     THEN data.move_history ELSE <<>>],
          raised |-> FALSE]

\* dict_to_game after the loop over the cells
LoadPlayer(data, loaded) ==
    IF loaded.raised \/ "current_player" \notin DOMAIN data
    THEN [cb |-> loaded.cb, raised |-> TRUE]
    ELSE LoadMode(data, [loaded.cb EXCEPT !.current_player = data.current_player])

\* dict_to_game: the board after the call (as far as it got) and whether it raised
dict_to_game(data, cb) ==
    IF "board" \notin DOMAIN data THEN [cb |-> ClearBoard(cb), raised |-> TRUE]
    ELSE LoadPlayer(data, LoadCells(data.board, ClearBoard(cb)))

\* the file chess_save.json
AbsentFile == [kind |-> "absent"]
\* a file json.load cannot parse
TextFile == [kind |-> "text"]
JsonFile(data) == [kind |-> "json", data |-> data]

\* save_game; io_ok is whether open(filename, 'w') succeeds
save_game(cb, f, io_ok) ==
    LET d == game_to_dict(cb)
    IN  IF d.raised \/ ~io_ok THEN [file |-> f, result |-> FALSE]
        ELSE [file |-> JsonFile(d.data), result |-> TRUE]

\* load_game
load_game(cb, f) ==
    IF f.kind = "absent" THEN [cb |-> cb, result |-> FALSE]
    ELSE IF f.kind = "text" THEN [cb |-> cb, result |-> FALSE]
    ELSE LET d == dict_to_game(f.data, cb)
         IN  [cb |-> d.cb, result |-> ~d.raised]

\* ------------------------------------------------------------ files on disk
\* What chess_save.json may hold when the program starts: nothing, text that
\* is no JSON, and documents written by hand or by an earlier run.

PieceCell(color, type, has_moved) == [color |-> color, type |-> type, has_moved |-> has_moved]

\* a board document: the cells of `placed', null elsewhere
DocBoard(placed) == [sq \in Squares |-> IF sq \in DOMAIN placed THEN placed[sq] ELSE NullCell]

\* a position with captures at hand, game_mode null and no move_history key
DocNullMode ==
    [board |-> DocBoard((<<6, 4>> :> PieceCell(WHITE_PIECE, PAWN, FALSE))
                     @@ (<<7, 4>> :> PieceCell(WHITE_PIECE, KNIGHT, FALSE))
                     @@ (<<5, 3>> :> PieceCell(BLACK_PIECE, PAWN, TRUE))),
     current_player |-> WHITE_PIECE,
     game_mode |-> <<>>]

\* a single-player game saved with Black to move
DocBlackToMove ==
    [board |-> DocBoard((<<4, 4>> :> PieceCell(WHITE_PIECE, PAWN, TRUE))
                     @@ (<<7, 4>> :> PieceCell(WHITE_PIECE, ROOK, FALSE))
                     @@ (<<1, 4>> :> PieceCell(BLACK_PIECE, PAWN, FALSE))),
     current_player |-> BLACK_PIECE,
     game_mode |-> <<0>>,
     move_history |-> <<>>]

\* a document without the key "current_player"
DocNoPlayer ==
    [board |-> DocBoard((<<5, 4>> :> PieceCell(WHITE_PIECE, PAWN, TRUE))
                     @@ (<<1, 4>> :> PieceCell(BLACK_PIECE, PAWN, FALSE))),
     game_mode |-> <<1>>,
     move_history |-> <<>>]

\* a document with a cell that has no "has_moved"
DocNoHasMoved ==
    [board |-> DocBoard((<<1, 4>> :> PieceCell(BLACK_PIECE, PAWN, FALSE))
                     @@ (<<6, 4>> :> [color |-> WHITE_PIECE, type |-> PAWN])
                     @@ (<<7, 4>> :> PieceCell(WHITE_PIECE, KING, FALSE))),
     current_player |-> BLACK_PIECE,
     game_mode |-> <<1>>,
     move_history |-> <<>>]

\* a document with a cell whose "type" names no piece class
DocBadType ==
    [board |-> DocBoard((<<1, 4>> :> PieceCell(BLACK_PIECE, PAWN, FALSE))
                     @@ (<<5, 3>> :> PieceCell(WHITE_PIECE, PAWN, FALSE))
                     @@ (<<6, 4>> :> PieceCell(WHITE_PIECE, "Pawn", TRUE))),
     current_player |-> WHITE_PIECE,
     game_mode |-> <<1>>,
     move_history |-> <<>>]

InitialFiles ==
    {AbsentFile, TextFile, JsonFile(DocNullMode), JsonFile(DocBlackToMove),
     JsonFile(DocNoPlayer), JsonFile(DocNoHasMoved), JsonFile(DocBadType)}

\* ------------------------------------------------------------ state

VARIABLES
    chess_board,   \* main's chess_board: the ChessBoard object and its pieces
    file,          \* the contents of chess_save.json
    game_state,    \* main's game_state
    game_mode      \* main's local game_mode

vars == <<chess_board, file, game_state, game_mode>>

\* main(), up to its event loop
Init ==
    /\ chess_board = ChessBoard
    /\ file \in InitialFiles
    /\ game_state = MENU
    /\ game_mode = NoMode

\* ------------------------------------------------------------ the engine's operations

\* select_piece(row, col)
Select(row, col) ==
    LET r == select_piece(chess_board, row, col)
    IN  /\ chess_board' = Collect(r.cb)
        /\ UNCHANGED <<file, game_state, game_mode>>

\* move_selected_piece(row, col)
Move(row, col) ==
    LET r == move_selected_piece(chess_board, row, col)
    IN  /\ Len(chess_board.move_history) < MaxMoves
        /\ chess_board' = Collect(r.cb)
        /\ UNCHANGED <<file, game_state, game_mode>>

\* make_ai_move()
AiMove ==
    \E choice \in RandomChoices(chess_board) :
        LET r == make_ai_move(chess_board, choice)
        IN  /\ Len(chess_board.move_history) < MaxMoves
            /\ chess_board' = Collect(r.cb)
            /\ UNCHANGED <<file, game_state, game_mode>>

\* variant of new_game that leaves the new ChessBoard's game_mode unset
new_game_without_mode(mode) == [ChessBoard EXCEPT !.move_history = <<>>]

\* a new game in `mode': a new ChessBoard, as main starts one
new_game(mode) == [ChessBoard EXCEPT !.game_mode = mode, !.move_history = <<>>]

NewGame(mode) ==
    /\ chess_board' = new_game(mode)
    /\ UNCHANGED <<file, game_state, game_mode>>

\* save_game(chess_board); a game is saved before its first move only
Save(io_ok) ==
    LET r == save_game(chess_board, file, io_ok)
    IN  /\ r.result => chess_board.move_history = <<>>
        /\ file' = r.file
        /\ UNCHANGED <<chess_board, game_state, game_mode>>

\* load_game(chess_board)
Load ==
    LET r == load_game(chess_board, file)
    IN  /\ chess_board' = Collect(r.cb)
        /\ UNCHANGED <<file, game_state, game_mode>>

Next ==
    \/ \E sq \in ClickSquares \cup OffBoardSquares : Select(sq[1], sq[2])
    \/ \E sq \in ClickSquares \cup OffBoardSquares : Move(sq[1], sq[2])
    \/ AiMove
    \/ \E mode \in {SINGLE_PLAYER, MULTIPLAYER} : NewGame(mode)
    \/ \E io_ok \in BOOLEAN : Save(io_ok)
    \/ Load

\* the engine's operations, called in any order
Spec == Init /\ [][Next]_vars

\* ------------------------------------------------------------ main()
\* The event loop of main(): one action per event it handles.  The menu's
\* chess_board is main's, and a click in the board area is on the board.

\* a menu click on "Single Player" or "Multiplayer"
MenuMode(mode) ==
    /\ game_state = MENU
    /\ game_mode' = mode
    /\ game_state' = PLAY
    /\ chess_board' = new_game(mode)
    /\ UNCHANGED file

\* a menu click on "Save Game"
MenuSave(io_ok) ==
    LET r == save_game(chess_board, file, io_ok)
    IN  /\ game_state = MENU
        /\ r.result => chess_board.move_history = <<>>
        /\ file' = r.file
        /\ UNCHANGED <<chess_board, game_state, game_mode>>

\* a menu click on "Load Game": load_game, then main's `load' branch
MenuLoad ==
    LET r == load_game(chess_board, file)
    IN  /\ game_state = MENU
        /\ chess_board' = Collect(r.cb)
        /\ IF r.cb.game_mode # NoMode
           THEN game_mode' = r.cb.game_mode /\ game_state' = PLAY
           ELSE UNCHANGED <<game_mode, game_state>>
        /\ UNCHANGED file

\* the Escape key during play
Escape ==
    /\ game_state = PLAY
    /\ game_state' = MENU
    /\ UNCHANGED <<chess_board, file, game_mode>>

\* the branch of a click that deselects: the board when main tests whether
\* the AI is to move
Deselect(cb, row, col) ==
    [move_selected_piece(cb, row, col).cb EXCEPT !.selected_piece = None,
                                                 !.legal_moves = <<>>]

\* variant of BoardClick without the test for the selected piece's own square
BoardClickReselecting(cb, mode, row, col, choice) ==
    IF cb.selected_piece # None
    THEN IF move_selected_piece(cb, row, col).result
         THEN IF mode = SINGLE_PLAYER
                 /\ Deselect(cb, row, col).current_player = BLACK_PIECE
              THEN make_ai_move(Deselect(cb, row, col), choice).cb
              ELSE Deselect(cb, row, col)
         ELSE select_piece(cb, row, col).cb
    ELSE select_piece(cb, row, col).cb

\* a click on the board square (row, col) in the mode `mode'; `choice' is
\* the index random.choice draws if make_ai_move is reached
BoardClick(cb, mode, row, col, choice) ==
    IF cb.selected_piece # None
    THEN IF \/ move_selected_piece(cb, row, col).result
            \/ (cb.pieces[cb.selected_piece].row = row
                /\ cb.pieces[cb.selected_piece].col = col)
         THEN IF mode = SINGLE_PLAYER
                 /\ Deselect(cb, row, col).current_player = BLACK_PIECE
              THEN make_ai_move(Deselect(cb, row, col), choice).cb
              ELSE Deselect(cb, row, col)
         ELSE select_piece(cb, row, col).cb
    ELSE select_piece(cb, row, col).cb

\* a mouse click during play; a click that moves is handled only while
\* move_history is shorter than MaxMoves
Click(row, col) ==
    /\ game_state = PLAY
    /\ \E choice \in RandomChoices(Deselect(chess_board, row, col)) :
         LET after == BoardClick(chess_board, game_mode, row, col, choice)
         IN  /\ \/ after.move_history = chess_board.move_history
                \/ Len(chess_board.move_history) < MaxMoves
             /\ chess_board' = Collect(after)
    /\ UNCHANGED <<file, game_state, game_mode>>

NextMain ==
    \/ \E mode \in {SINGLE_PLAYER, MULTIPLAYER} : MenuMode(mode)
    \/ \E io_ok \in BOOLEAN : MenuSave(io_ok)
    \/ MenuLoad
    \/ Escape
    \/ \E sq \in ClickSquares : Click(sq[1], sq[2])

\* the program: main() handling one event after another
SpecMain == Init /\ [][NextMain]_vars

\* ------------------------------------------------------------ positions
\* The engine on positions other than those a game from the start reaches
\* within MaxMoves: chess_save.json holds a position document, which
\* load_game has put on a new ChessBoard.  A position is one piece alone on
\* any square, or a piece on SubjectSquare with up to MaxOthers pawns placed
\* on OtherSquares.

\* the number of pawns placed around the piece on SubjectSquare
MaxOthers == 2

SubjectSquare == <<4, 4>>
\* squares in front of, diagonal to, on the rays of and a knight's move from
\* SubjectSquare
OtherSquares ==
    {<<3, 4>>, <<2, 4>>, <<5, 4>>, <<6, 4>>, <<3, 3>>, <<5, 5>>, <<2, 3>>}

Colors == {WHITE_PIECE, BLACK_PIECE}

\* the piece the position is about: any type and color; a pawn has moved or not
SubjectCells ==
    {PieceCell(color, type, has_moved) :
        color \in Colors, type \in PieceTypes, has_moved \in BOOLEAN}
    \ {PieceCell(color, type, TRUE) : color \in Colors, type \in PieceTypes \ {PAWN}}

LonePlacements == {sq :> cell : sq \in Squares, cell \in SubjectCells}

CrowdedPlacements ==
    UNION {{(SubjectSquare :> cell) @@ [sq \in others |-> PieceCell(color[sq], PAWN, FALSE)] :
              cell \in SubjectCells, color \in [others -> Colors]} :
           others \in {T \in SUBSET OtherSquares :
                         Cardinality(T) >= 1 /\ Cardinality(T) <= MaxOthers}}

\* the piece a placement is about: the one on SubjectSquare, or the only one
Subject(placed) ==
    IF SubjectSquare \in DOMAIN placed THEN SubjectSquare
    ELSE CHOOSE sq \in DOMAIN placed : TRUE

\* the document of a placement, the piece the position is about to move
PositionDoc(placed) ==
    [board |-> DocBoard(placed),
     current_player |-> placed[Subject(placed)].color,
     game_mode |-> <<1>>,
     move_history |-> <<>>]

\* main() up to its event loop, then load_game of a position document
InitPosition ==
    \E placed \in LonePlacements \cup CrowdedPlacements :
        /\ file = JsonFile(PositionDoc(placed))
        /\ chess_board = Collect(load_game(ChessBoard, JsonFile(PositionDoc(placed))).cb)
        /\ game_state = MENU
        /\ game_mode = NoMode

\* move_selected_piece(row, col), for the first move of a position
PositionMove(row, col) ==
    /\ chess_board.move_history = <<>>
    /\ Move(row, col)

NextPosition ==
    \/ Select(SubjectSquare[1], SubjectSquare[2])
    \/ \E sq \in OtherSquares \cup {SubjectSquare} : PositionMove(sq[1], sq[2])

\* select_piece on the piece the position is about and move_selected_piece,
\* on a loaded position
SpecPosition == InitPosition /\ [][NextPosition]_vars

\* ------------------------------------------------------------ games
\* One game from new_game on: select_piece, move_selected_piece and
\* make_ai_move called in any order on the board of a new game, with no load.

\* moves of a game are applied only while move_history is shorter than this
MaxGameMoves == 3
\* the squares handed to select_piece / move_selected_piece in a game: e2,
\* e3, e4, b8, c7, c6, d7, d5 and coordinates outside the board
GameSquares ==
    {<<6, 4>>, <<5, 4>>, <<4, 4>>, <<0, 1>>, <<1, 2>>, <<2, 2>>, <<1, 3>>, <<3, 3>>}
        \cup OffBoardSquares

\* a new game in either mode
InitGame ==
    /\ \E mode \in {SINGLE_PLAYER, MULTIPLAYER} : chess_board = new_game(mode)
    /\ file = AbsentFile
    /\ game_state = MENU
    /\ game_mode = NoMode

\* move_selected_piece(row, col) in a game
GameMove(row, col) ==
    LET r == move_selected_piece(chess_board, row, col)
    IN  /\ Len(chess_board.move_history) < MaxGameMoves
        /\ chess_board' = Collect(r.cb)
        /\ UNCHANGED <<file, game_state, game_mode>>

\* make_ai_move() in a game
GameAiMove ==
    \E choice \in RandomChoices(chess_board) :
        LET r == make_ai_move(chess_board, choice)
        IN  /\ Len(chess_board.move_history) < MaxGameMoves
            /\ chess_board' = Collect(r.cb)
            /\ UNCHANGED <<file, game_state, game_mode>>

NextGame ==
    \/ \E sq \in GameSquares : Select(sq[1], sq[2])
    \/ \E sq \in GameSquares : GameMove(sq[1], sq[2])
    \/ GameAiMove

\* a game advanced by the three operations only
SpecGame == InitGame /\ [][NextGame]_vars

\* ------------------------------------------------------------ properties
\* The arguments the properties hand to the ChessBoard methods: every square
\* of the board and the coordinates outside it.
CallSquares == Squares \cup OffBoardSquares

\* the square is among chess_board.legal_moves
Cached(sq) ==
    \E i \in 1..Len(chess_board.legal_moves) : chess_board.legal_moves[i] = sq

\* the square holds a piece of the player to move
HoldsOwnPiece(sq) ==
    /\ sq \in Squares
    /\ chess_board.board[sq] # None
    /\ chess_board.pieces[chess_board.board[sq]].color = chess_board.current_player

\* C1: move_selected_piece returns False and leaves the whole ChessBoard
\* (cells, every piece's position and has_moved, move_history,
\* current_player, selection, cache) as it was whenever no piece is selected
\* or the target is not in legal_moves, in every reachable state and for
\* every target.
C1_RejectedMoveChangesNothing ==
    \A sq \in CallSquares :
        (chess_board.selected_piece = None \/ ~Cached(sq))
        => /\ move_selected_piece(chess_board, sq[1], sq[2]).result = FALSE
           /\ move_selected_piece(chess_board, sq[1], sq[2]).cb = chess_board

\* a piece is selected after a move was made, its cache is not empty, and a
\* clicked square holding a piece is outside the cache
C1_Witness ==
    /\ chess_board.selected_piece # None
    /\ chess_board.legal_moves # <<>>
    /\ chess_board.move_history # <<>>
    /\ \E sq \in ClickSquares : chess_board.board[sq] # None /\ ~Cached(sq)

\* C2 as the claim states it: when move_selected_piece succeeds, the cell of
\* the piece's position before the call is empty, the destination holds the
\* piece, its position is the destination and has_moved is true, the player
\* to move has changed, and selection and cache are cleared.
C2_MovePostState ==
    \A sq \in Squares :
        (chess_board.selected_piece # None /\ Cached(sq))
        => LET sel == chess_board.selected_piece
               from == <<chess_board.pieces[sel].row, chess_board.pieces[sel].col>>
               r == move_selected_piece(chess_board, sq[1], sq[2])
           IN  /\ r.result = TRUE
               /\ r.cb.board[from] = None
               /\ r.cb.board[sq] = sel
               /\ r.cb.pieces[sel].row = sq[1]
               /\ r.cb.pieces[sel].col = sq[2]
               /\ r.cb.pieces[sel].has_moved = TRUE
               /\ r.cb.current_player # chess_board.current_player
               /\ r.cb.current_player \in {WHITE_PIECE, BLACK_PIECE}
               /\ r.cb.selected_piece = None
               /\ r.cb.legal_moves = <<>>

\* C3 as the claim states it: no piece object is held by two cells, and every
\* piece a cell holds stores that cell's row and column.
C3_BoardMatchesPositions ==
    /\ \A sq1, sq2 \in Squares :
          (chess_board.board[sq1] # None /\ sq1 # sq2)
          => chess_board.board[sq1] # chess_board.board[sq2]
    /\ \A sq \in Squares :
          chess_board.board[sq] # None
          => /\ chess_board.pieces[chess_board.board[sq]].row = sq[1]
             /\ chess_board.pieces[chess_board.board[sq]].col = sq[2]

\* C4: select_piece returns True exactly when the square is on the board and
\* holds a piece of current_player; then the selection is that piece and the
\* cache is its legal moves on the board as it is, and nothing else changes;
\* when it returns False nothing changes at all.
C4_SelectIffOwnPiece ==
    \A sq \in CallSquares :
        LET r == select_piece(chess_board, sq[1], sq[2])
        IN  /\ r.result = HoldsOwnPiece(sq)
            /\ r.result
               => r.cb = [chess_board EXCEPT
                            !.selected_piece = chess_board.board[sq],
                            !.legal_moves = get_legal_moves(chess_board.board,
                                                            chess_board.pieces,
                                                            chess_board.board[sq])]
            /\ ~r.result => r.cb = chess_board

\* after a move, a piece is selected with moves to make while a clicked
\* square holds a piece of the other color and another is empty
C4_Witness ==
    /\ chess_board.selected_piece # None
    /\ chess_board.legal_moves # <<>>
    /\ chess_board.move_history # <<>>
    /\ \E sq \in ClickSquares : chess_board.board[sq] # None /\ ~HoldsOwnPiece(sq)
    /\ \E sq \in ClickSquares : chess_board.board[sq] = None

\* C5 as the claim states it: a load_game that returns False leaves the
\* ChessBoard as it was.
C5_FailedLoadChangesNothing ==
    ~load_game(chess_board, file).result
    => Collect(load_game(chess_board, file).cb) = chess_board

\* the cell of `from' and the cell of `to' hold the same color, type and
\* has_moved, or are both empty
SameCell(from, to, sq) ==
    IF from.board[sq] = None THEN to.board[sq] = None
    ELSE /\ to.board[sq] # None
         /\ to.pieces[to.board[sq]].color = from.pieces[from.board[sq]].color
         /\ to.pieces[to.board[sq]].piece_type = from.pieces[from.board[sq]].piece_type
         /\ to.pieces[to.board[sq]].has_moved = from.pieces[from.board[sq]].has_moved

\* C6 as the claim states it: in every reachable state game_to_dict followed
\* by dict_to_game into a new ChessBoard gives the same 64 cells, the same
\* current_player and the same move_history.
C6_RoundTrip ==
    /\ ~game_to_dict(chess_board).raised
    /\ ~dict_to_game(game_to_dict(chess_board).data, ChessBoard).raised
    /\ \A sq \in Squares :
          SameCell(chess_board,
                   dict_to_game(game_to_dict(chess_board).data, ChessBoard).cb, sq)
    /\ dict_to_game(game_to_dict(chess_board).data, ChessBoard).cb.current_player
         = chess_board.current_player
    /\ dict_to_game(game_to_dict(chess_board).data, ChessBoard).cb.move_history
         = chess_board.move_history

\* C7 as the claim states it: with game_mode None, game_to_dict returns a
\* dict whose game_mode is null, with board, current_player and
\* move_history, and save_game succeeds.
C7_SaveWithoutMode ==
    chess_board.game_mode = NoMode
    => /\ ~game_to_dict(chess_board).raised
       /\ DOMAIN game_to_dict(chess_board).data
            = {"board", "current_player", "game_mode", "move_history"}
       /\ game_to_dict(chess_board).data.game_mode = <<>>
       /\ save_game(chess_board, file, TRUE).result

\* the ChessBoard after select_piece on the square of the piece of the entry
\* `move' of all_moves, then move_selected_piece to its destination
SelectThenMove(cb, move) ==
    move_selected_piece(
        select_piece(cb, cb.pieces[move[1]].row, cb.pieces[move[1]].col).cb,
        move[2][1], move[2][2]).cb

\* C8 as the claim states it: on Black's turn, for every entry of
\* get_all_valid_moves(BLACK_PIECE), make_ai_move drawing that entry leaves
\* the ChessBoard that select_piece and move_selected_piece leave.
C8_AiMoveIsInteractiveMove ==
    chess_board.current_player = BLACK_PIECE
    => \A i \in 1..Len(get_all_valid_moves(chess_board, BLACK_PIECE)) :
          Collect(make_ai_move(chess_board, i).cb)
            = Collect(SelectThenMove(
                        chess_board,
                        get_all_valid_moves(chess_board, BLACK_PIECE)[i]))

\* cb after the entry `move' of all_moves is applied: the piece leaves its
\* cell for the destination and one entry is appended to move_history
MoveApplied(cb, after, move) ==
    LET piece == move[1]
        from == <<cb.pieces[piece].row, cb.pieces[piece].col>>
    IN  /\ after.board = [cb.board EXCEPT ![from] = None, ![move[2]] = piece]
        /\ after.pieces = [cb.pieces EXCEPT ![piece] =
                             [@ EXCEPT !.row = move[2][1], !.col = move[2][2],
                                       !.has_moved = TRUE]]
        /\ Len(after.move_history) = Len(cb.move_history) + 1
        /\ SubSeq(after.move_history, 1, Len(cb.move_history)) = cb.move_history
        /\ after.current_player = WHITE_PIECE

\* C9: make_ai_move returns True exactly when it moved: when current_player
\* is not Black or Black has no legal move it returns False and the
\* ChessBoard is as it was; otherwise it returns True and exactly the drawn
\* entry of get_all_valid_moves(BLACK_PIECE) has been applied.
C9_AiMoveReportsMove ==
    LET all_moves == get_all_valid_moves(chess_board, BLACK_PIECE)
    IN  IF chess_board.current_player # BLACK_PIECE \/ all_moves = <<>>
        THEN /\ make_ai_move(chess_board, 1).result = FALSE
             /\ make_ai_move(chess_board, 1).cb = chess_board
        ELSE \A i \in 1..Len(all_moves) :
                /\ make_ai_move(chess_board, i).result = TRUE
                /\ MoveApplied(chess_board, make_ai_move(chess_board, i).cb,
                               all_moves[i])

\* it is Black's turn after a move, and Black has no legal move
C9_Witness ==
    /\ chess_board.current_player = BLACK_PIECE
    /\ chess_board.move_history # <<>>
    /\ get_all_valid_moves(chess_board, BLACK_PIECE) = <<>>

\* the selection and the cache dropped
Cleared(cb) == [cb EXCEPT !.selected_piece = None, !.legal_moves = <<>>]

\* the square is the stored position of the selected piece
OwnSquare(sq) ==
    /\ chess_board.pieces[chess_board.selected_piece].row = sq[1]
    /\ chess_board.pieces[chess_board.selected_piece].col = sq[2]

\* C10 as the claim states it: during play with a piece selected, a click on
\* a square outside the cache (the selected piece's own square included)
\* selects the piece on it if that is one of the player to move, and
\* otherwise changes nothing.
C10_ClickOutsideCache ==
    (game_state = PLAY /\ chess_board.selected_piece # None)
    => \A sq \in Squares :
          ~Cached(sq)
          => \A choice \in RandomChoices(Deselect(chess_board, sq[1], sq[2])) :
                BoardClick(chess_board, game_mode, sq[1], sq[2], choice)
                  = IF HoldsOwnPiece(sq)
                    THEN select_piece(chess_board, sq[1], sq[2]).cb
                    ELSE chess_board

\* C10, amended: during play with a piece selected, a click on a square
\* outside the cache that is the selected piece's stored position drops the
\* selection and the cache, after which make_ai_move runs if the mode is
\* single player and it is Black's turn; a click on another square outside
\* the cache selects the piece on it if that is one of the player to move,
\* and otherwise changes nothing.
C10_ClickOutsideCacheAmended ==
    (game_state = PLAY /\ chess_board.selected_piece # None)
    => \A sq \in Squares :
          ~Cached(sq)
          => \A choice \in RandomChoices(Deselect(chess_board, sq[1], sq[2])) :
                BoardClick(chess_board, game_mode, sq[1], sq[2], choice)
                  = IF OwnSquare(sq)
                    THEN IF game_mode = SINGLE_PLAYER
                            /\ chess_board.current_player = BLACK_PIECE
                         THEN make_ai_move(Cleared(chess_board), choice).cb
                         ELSE Cleared(chess_board)
                    ELSE IF HoldsOwnPiece(sq)
                    THEN select_piece(chess_board, sq[1], sq[2]).cb
                    ELSE chess_board

\* during a single-player game it is Black's turn and a Black piece with a
\* move to make is selected on a square that can be clicked
C10_Witness ==
    /\ game_state = PLAY
    /\ game_mode = SINGLE_PLAYER
    /\ chess_board.current_player = BLACK_PIECE
    /\ chess_board.selected_piece # None
    /\ chess_board.legal_moves # <<>>
    /\ \E sq \in ClickSquares : OwnSquare(sq) /\ HoldsOwnPiece(sq)

\* the ChessBoard after load_game on the file as it is
Loaded == load_game(chess_board, file).cb

\* C11 as the claim states it: after a load_game that returns True nothing
\* of the ChessBoard before it is left: no piece is selected, the cache is
\* empty, and so no move_selected_piece moves a piece that no cell of the
\* loaded board holds.
C11_LoadReplacesState ==
    load_game(chess_board, file).result
    => /\ Loaded.selected_piece = None
       /\ Loaded.legal_moves = <<>>
       /\ \A sq \in Squares :
             move_selected_piece(Loaded, sq[1], sq[2]).result
             => \E cell \in Squares : Loaded.board[cell] = Loaded.selected_piece

\* the piece type of the standard starting layout on column col of a back rank
StartingBackRank(col) ==
    CASE col \in {0, 7} -> ROOK
      [] col \in {1, 6} -> KNIGHT
      [] col \in {2, 5} -> BISHOP
      [] col = 3 -> QUEEN
      [] col = 4 -> KING

\* cb is a game not yet begun in `mode': the 32 pieces of the standard
\* layout, each a piece of its own on its own square that has not moved,
\* White to move, no history, no selection, no cache
FreshGame(cb, mode) ==
    /\ \A sq \in Squares :
          IF sq[1] \in {0, 1, 6, 7}
          THEN /\ cb.board[sq] # None
               /\ cb.pieces[cb.board[sq]]
                    = [color |-> IF sq[1] <= 1 THEN BLACK_PIECE ELSE WHITE_PIECE,
                       piece_type |-> IF sq[1] \in {1, 6} THEN PAWN
                                      ELSE StartingBackRank(sq[2]),
                       row |-> sq[1], col |-> sq[2], has_moved |-> FALSE]
          ELSE cb.board[sq] = None
    /\ Cardinality({cb.board[sq] : sq \in Squares} \ {None}) = 32
    /\ cb.current_player = WHITE_PIECE
    /\ cb.move_history = <<>>
    /\ cb.selected_piece = None
    /\ cb.legal_moves = <<>>
    /\ cb.game_mode = mode

\* C12: a menu click on a game mode, whatever the state before it, leaves a
\* fresh game: the standard 32-piece starting layout with every has_moved
\* false, White to move, empty move_history, nothing selected, empty cache,
\* and the mode (of the ChessBoard and of main) equal to the chosen mode.
C12_ModeSelectionStartsFreshGame ==
    [][\A mode \in {SINGLE_PLAYER, MULTIPLAYER} :
          MenuMode(mode) => /\ FreshGame(chess_board', mode)
                            /\ game_mode' = mode
                            /\ game_state' = PLAY]_vars

\* a multiplayer game has just been started, after a single-player game was
\* saved to the file
C12_Witness ==
    /\ game_state = PLAY
    /\ FreshGame(chess_board, MULTIPLAYER)
    /\ game_mode = MULTIPLAYER
    /\ file.kind = "json"
    /\ "move_history" \in DOMAIN file.data
    /\ file.data.game_mode = <<GameModeValue(SINGLE_PLAYER)>>
    /\ file \notin InitialFiles

\* the position is the standard starting position with White to move
InitialPosition(cb) ==
    /\ cb.board = ChessBoard.board
    /\ cb.pieces = ChessBoard.pieces
    /\ cb.current_player = WHITE_PIECE

\* C13: a move_selected_piece that returns True appends exactly one entry to
\* move_history, which is get_move_notation of the piece's position before
\* the move, the destination, the piece, and whether the destination cell
\* held a piece before the move; and from the starting position, selecting
\* (6,4) and moving to (4,4) leaves move_history ending with "e4" and Black
\* to move.
C13_MoveAppendsNotation ==
    /\ \A sq \in Squares :
          move_selected_piece(chess_board, sq[1], sq[2]).result
          => move_selected_piece(chess_board, sq[1], sq[2]).cb.move_history
               = Append(chess_board.move_history,
                        get_move_notation(
                            chess_board.pieces[chess_board.selected_piece].row,
                            chess_board.pieces[chess_board.selected_piece].col,
                            sq[1], sq[2],
                            chess_board.pieces[chess_board.selected_piece],
                            chess_board.board[sq] # None))
    /\ InitialPosition(chess_board)
       => /\ select_piece(chess_board, 6, 4).result
          /\ move_selected_piece(select_piece(chess_board, 6, 4).cb, 4, 4).result
          /\ LET after == move_selected_piece(select_piece(chess_board, 6, 4).cb, 4, 4).cb
             IN  /\ after.move_history = Append(chess_board.move_history, <<"e", "4">>)
                 /\ after.current_player = BLACK_PIECE

\* a pawn has captured on d3 from e2 and the move is the last of move_history
C13_Witness ==
    /\ chess_board.move_history # <<>>
    /\ chess_board.move_history[Len(chess_board.move_history)] = <<"e", "x", "d", "3">>
    /\ chess_board.board[<<5, 3>>] # None
    /\ chess_board.pieces[chess_board.board[<<5, 3>>]].piece_type = PAWN
    /\ chess_board.pieces[chess_board.board[<<5, 3>>]].color = WHITE_PIECE

\* the letter of a piece type that is not the pawn
PieceLetter(type) ==
    CASE type = KNIGHT -> "N"
      [] type = BISHOP -> "B"
      [] type = ROOK -> "R"
      [] type = QUEEN -> "Q"
      [] type = KING -> "K"

\* `notation' has the form of a move of a piece of the type from `from' to
\* the square named `destination'
NotationIs(type, from, is_capture, notation, destination) ==
    CASE type = PAWN /\ ~is_capture -> notation = destination
      [] type = PAWN /\ is_capture ->
           notation = <<FileLetters[from[2] + 1], "x">> \o destination
      [] type # PAWN /\ ~is_capture ->
           notation = <<PieceLetter(type)>> \o destination
      [] type # PAWN /\ is_capture ->
           notation = <<PieceLetter(type), "x">> \o destination

\* C14: for every source square, destination square, piece type and capture
\* flag, get_move_notation is the destination's algebraic square alone for a
\* pawn that does not capture; the source file letter, "x" and the
\* destination square for a pawn capture; the piece letter (N/B/R/Q/K) and
\* the destination square for another piece that does not capture; and the
\* piece letter, "x" and the destination square for its capture.  (Each
\* state gives the pieces on its board as sources; every destination and
\* both flags are tried.)
C14_MoveNotationForms ==
    \A from \in Squares :
        chess_board.board[from] # None
        => \A to \in Squares, is_capture \in BOOLEAN :
              NotationIs(chess_board.pieces[chess_board.board[from]].piece_type,
                         from, is_capture,
                         get_move_notation(from[1], from[2], to[1], to[2],
                                           chess_board.pieces[chess_board.board[from]],
                                           is_capture),
                         get_algebraic_notation(to[1], to[2]))

\* a knight has captured on d6, and the move is recorded as "Nxd6"
C14_Witness ==
    /\ chess_board.move_history = <<<<"N", "x", "d", "6">>>>
    /\ chess_board.board[<<2, 3>>] # None
    /\ chess_board.pieces[chess_board.board[<<2, 3>>]].piece_type = KNIGHT

\* C15: for each of the 64 squares (row, col) of the board,
\* get_board_coordinates(get_algebraic_notation(row, col)) is (row, col);
\* get_algebraic_notation gives the file letter 'a' + col and the rank
\* 8 - row, so that (7,0) is "a1"; and the 64 squares have 64 different names.
C15_AlgebraicRoundTrip ==
    /\ \A sq \in DOMAIN chess_board.board :
          /\ get_board_coordinates(get_algebraic_notation(sq[1], sq[2])) = sq
          /\ get_algebraic_notation(sq[1], sq[2])
               = <<FileLetters[sq[2] + 1], Digits[(8 - sq[1]) + 1]>>
    /\ get_algebraic_notation(7, 0) = <<"a", "1">>
    /\ get_algebraic_notation(0, 7) = <<"h", "8">>
    /\ Cardinality({get_algebraic_notation(sq[1], sq[2]) : sq \in DOMAIN chess_board.board})
         = BOARD_SIZE * BOARD_SIZE
    /\ Cardinality(DOMAIN chess_board.board) = BOARD_SIZE * BOARD_SIZE

\* a pawn has moved to e5, and the square its move names is the cell it is on
C15_Witness ==
    /\ chess_board.move_history = <<<<"e", "5">>>>
    /\ get_board_coordinates(chess_board.move_history[1]) = <<3, 4>>
    /\ chess_board.board[<<3, 4>>] # None
    /\ chess_board.pieces[chess_board.board[<<3, 4>>]].piece_type = PAWN

\* one entry per destination of the piece, in the order of `legal'
Entries(piece, legal) == [i \in 1..Len(legal) |-> <<piece, legal[i]>>]

\* the entries the piece of the cell (row, col) gives: one per legal
\* destination, in the order of its get_legal_moves, if it is of the color
EntriesOf(cb, color, row, col) ==
    IF cb.board[<<row, col>>] # None /\ cb.pieces[cb.board[<<row, col>>]].color = color
    THEN Entries(cb.board[<<row, col>>],
                 get_legal_moves(cb.board, cb.pieces, cb.board[<<row, col>>]))
    ELSE <<>>

RECURSIVE EntriesFrom(_, _, _, _)
\* the entries of the cells from (row, col) on, row by row
EntriesFrom(cb, color, row, col) ==
    IF row = BOARD_SIZE THEN <<>>
    ELSE EntriesOf(cb, color, row, col)
         \o (IF col = BOARD_SIZE - 1 THEN EntriesFrom(cb, color, row + 1, 0)
             ELSE EntriesFrom(cb, color, row, col + 1))

\* the piece type of each entry of all_moves
MovedTypes(cb, all_moves) ==
    [i \in 1..Len(all_moves) |-> cb.pieces[all_moves[i][1]].piece_type]

\* C16: get_all_valid_moves(color) is the concatenation, over the 64 cells
\* in row-major order, of the legal destinations of each piece of that
\* color, each piece's destinations in their order and no piece of the other
\* color contributing; on the starting position it has exactly 20 entries
\* for White, 16 destinations of pawns followed by 4 of knights.
C16_AllValidMovesRowMajor ==
    /\ \A color \in {WHITE_PIECE, BLACK_PIECE} :
          get_all_valid_moves(chess_board, color)
            = EntriesFrom(chess_board, color, 0, 0)
    /\ InitialPosition(chess_board)
       => /\ Len(get_all_valid_moves(chess_board, WHITE_PIECE)) = 20
          /\ MovedTypes(chess_board, get_all_valid_moves(chess_board, WHITE_PIECE))
               = [i \in 1..20 |-> IF i <= 16 THEN PAWN ELSE KNIGHT]

\* after a first move from the starting position Black has its 20 moves and
\* White has more
C16_Witness ==
    /\ Len(chess_board.move_history) = 1
    /\ chess_board.current_player = BLACK_PIECE
    /\ Len(get_all_valid_moves(chess_board, BLACK_PIECE)) = 20
    /\ Len(get_all_valid_moves(chess_board, WHITE_PIECE)) > 20

\* the set of the entries of a list, and whether no entry occurs twice
Entry(seq) == {seq[i] : i \in 1..Len(seq)}
NoRepeat(seq) == Cardinality(Entry(seq)) = Len(seq)

Orthogonal == {<<0, 1>>, <<1, 0>>, <<0, 0 - 1>>, <<0 - 1, 0>>}
Diagonal == {<<1, 1>>, <<1, 0 - 1>>, <<0 - 1, 1>>, <<0 - 1, 0 - 1>>}

\* the square i steps from the piece's square `at' in the direction d
Step(at, d, i) == <<at[1] + i * d[1], at[2] + i * d[2]>>

\* the square holds no piece of the color
NotOwn(cb, color, sq) ==
    cb.board[sq] = None \/ cb.pieces[cb.board[sq]].color # color

\* the squares a piece of the color on `at' reaches along the directions:
\* on the board, every square before them on the ray empty, and not holding
\* a piece of the color
Reached(cb, color, at, directions) ==
    UNION {{Step(at, d, i) :
              i \in {k \in 1..(BOARD_SIZE - 1) :
                       /\ Step(at, d, k) \in Squares
                       /\ NotOwn(cb, color, Step(at, d, k))
                       /\ \A j \in 1..(k - 1) : cb.board[Step(at, d, j)] = None}} :
           d \in directions}

\* the legal moves of the piece are exactly the squares of `reached', each once
MovesAre(cb, piece, reached) ==
    /\ Entry(get_legal_moves(cb.board, cb.pieces, piece)) = reached
    /\ NoRepeat(get_legal_moves(cb.board, cb.pieces, piece))

\* C17: for a rook, bishop or queen on any board, the legal destinations are
\* exactly, for each of its directions (orthogonal for the rook, diagonal
\* for the bishop, both for the queen), the consecutive squares of the board
\* from the piece up to the first occupied square, that square included
\* exactly when it holds an opposing piece; so no destination holds a piece
\* of the same color and none lies beyond an occupied square of its ray.
C17_SlidingMoves ==
    \A at \in Squares :
        (chess_board.board[at] # None
         /\ chess_board.pieces[chess_board.board[at]].piece_type \in {ROOK, BISHOP, QUEEN})
        => MovesAre(chess_board, chess_board.board[at],
                    Reached(chess_board,
                            chess_board.pieces[chess_board.board[at]].color, at,
                            CASE chess_board.pieces[chess_board.board[at]].piece_type = ROOK
                                   -> Orthogonal
                              [] chess_board.pieces[chess_board.board[at]].piece_type = BISHOP
                                   -> Diagonal
                              [] OTHER -> Orthogonal \cup Diagonal))

\* a queen on e4 is selected with a pawn of its color on e3 and an opposing
\* pawn on e6: e6 and e5 are cached, e3, e2 and e7 are not
C17_Witness ==
    /\ chess_board.selected_piece # None
    /\ chess_board.selected_piece = chess_board.board[SubjectSquare]
    /\ chess_board.pieces[chess_board.selected_piece].piece_type = QUEEN
    /\ chess_board.board[<<5, 4>>] # None
    /\ chess_board.pieces[chess_board.board[<<5, 4>>]].color = chess_board.current_player
    /\ chess_board.board[<<2, 4>>] # None
    /\ chess_board.pieces[chess_board.board[<<2, 4>>]].color # chess_board.current_player
    /\ Cached(<<3, 4>>) /\ Cached(<<2, 4>>)
    /\ ~Cached(<<5, 4>>) /\ ~Cached(<<6, 4>>) /\ ~Cached(<<1, 4>>)

\* the square is on the board and holds no piece
EmptySquare(cb, sq) == sq \in Squares /\ cb.board[sq] = None

\* the squares a pawn on `at' may go to: forward is row - 1 for White and
\* row + 1 for Black
PawnSquares(cb, pawn, at) ==
    LET forward == IF pawn.color = WHITE_PIECE THEN 0 - 1 ELSE 1
        one == <<at[1] + forward, at[2]>>
        two == <<at[1] + 2 * forward, at[2]>>
    IN  {sq \in {one} : EmptySquare(cb, sq)}
        \cup {sq \in {two} : /\ ~pawn.has_moved
                             /\ EmptySquare(cb, one)
                             /\ EmptySquare(cb, sq)}
        \cup {sq \in {<<at[1] + forward, at[2] - 1>>, <<at[1] + forward, at[2] + 1>>} :
                /\ sq \in Squares
                /\ cb.board[sq] # None
                /\ cb.pieces[cb.board[sq]].color # pawn.color}

\* C18: for a pawn on any board, the legal destinations are exactly the
\* square one step toward the opponent's side (row - 1 for White, row + 1
\* for Black) iff it is on the board and empty; the square two steps forward
\* iff has_moved is false and the square in between and the destination are
\* on the board and empty; and each forward-diagonal square iff it is on the
\* board and holds an opposing piece.
C18_PawnMoves ==
    \A at \in Squares :
        (chess_board.board[at] # None
         /\ chess_board.pieces[chess_board.board[at]].piece_type = PAWN)
        => MovesAre(chess_board, chess_board.board[at],
                    PawnSquares(chess_board, chess_board.pieces[chess_board.board[at]], at))

\* a White pawn that has not moved is selected on e4, a pawn stands on e6 and
\* a Black pawn on d5: e5 and d5 are cached, e6 is not
C18_Witness ==
    /\ chess_board.selected_piece # None
    /\ chess_board.selected_piece = chess_board.board[SubjectSquare]
    /\ chess_board.pieces[chess_board.selected_piece].piece_type = PAWN
    /\ chess_board.pieces[chess_board.selected_piece].color = WHITE_PIECE
    /\ ~chess_board.pieces[chess_board.selected_piece].has_moved
    /\ chess_board.board[<<2, 4>>] # None
    /\ chess_board.board[<<3, 3>>] # None
    /\ chess_board.pieces[chess_board.board[<<3, 3>>]].color = BLACK_PIECE
    /\ Cached(<<3, 4>>) /\ Cached(<<3, 3>>) /\ ~Cached(<<2, 4>>)

\* the 8 L-shaped offsets and the 8 adjacent offsets
LShaped ==
    {o \in {0 - 2, 0 - 1, 1, 2} \X {0 - 2, 0 - 1, 1, 2} : o[1] * o[1] # o[2] * o[2]}
Adjacent == ({0 - 1, 0, 1} \X {0 - 1, 0, 1}) \ {<<0, 0>>}

\* the squares at the offsets from `at' that are on the board and hold no
\* piece of the color
OffsetSquares(cb, color, at, offsets) ==
    {sq \in {Step(at, o, 1) : o \in offsets} \cap Squares : NotOwn(cb, color, sq)}

\* C19: for a knight (8 L-shaped offsets) or a king (8 adjacent offsets) on
\* any board, a square at one of the piece's offsets is a legal destination
\* iff it is on the board and holds no piece of the same color, and no other
\* square is one; whether the opponent attacks the square plays no part.
C19_KnightAndKingMoves ==
    /\ Cardinality(LShaped) = 8 /\ Cardinality(Adjacent) = 8
    /\ \A at \in Squares :
          (chess_board.board[at] # None
           /\ chess_board.pieces[chess_board.board[at]].piece_type \in {KNIGHT, KING})
          => MovesAre(chess_board, chess_board.board[at],
                      OffsetSquares(chess_board,
                                    chess_board.pieces[chess_board.board[at]].color, at,
                                    IF chess_board.pieces[chess_board.board[at]].piece_type
                                         = KNIGHT
                                    THEN LShaped ELSE Adjacent))

\* a White king is selected on e4 with a White pawn on d5 and a Black pawn
\* on d6, a pawn's capture away from e5: e5 is cached, d5 is not
C19_Witness ==
    /\ chess_board.selected_piece # None
    /\ chess_board.selected_piece = chess_board.board[SubjectSquare]
    /\ chess_board.pieces[chess_board.selected_piece].piece_type = KING
    /\ chess_board.pieces[chess_board.selected_piece].color = WHITE_PIECE
    /\ chess_board.board[<<3, 3>>] # None
    /\ chess_board.pieces[chess_board.board[<<3, 3>>]].color = WHITE_PIECE
    /\ chess_board.board[<<2, 3>>] # None
    /\ chess_board.pieces[chess_board.board[<<2, 3>>]].color = BLACK_PIECE
    /\ chess_board.pieces[chess_board.board[<<2, 3>>]].piece_type = PAWN
    /\ Cached(<<3, 4>>) /\ ~Cached(<<3, 3>>)

\* the cells of the board that hold a piece
Occupied(cb) == {sq \in Squares : cb.board[sq] # None}

\* C20: a rook alone on an otherwise empty board has exactly 14 legal
\* destinations, on the center square (4,4) and on any other square.
C20_LoneRookHas14Moves ==
    Cardinality(Occupied(chess_board)) = 1
    => \A at \in Occupied(chess_board) :
          chess_board.pieces[chess_board.board[at]].piece_type = ROOK
          => /\ Len(get_legal_moves(chess_board.board, chess_board.pieces,
                                    chess_board.board[at])) = 14
             /\ Cardinality(Entry(get_legal_moves(chess_board.board, chess_board.pieces,
                                                  chess_board.board[at]))) = 14

\* a rook alone on the board is selected on (4,4), with 14 cached squares
C20_Witness ==
    /\ Occupied(chess_board) = {SubjectSquare}
    /\ chess_board.selected_piece = chess_board.board[SubjectSquare]
    /\ chess_board.pieces[chess_board.selected_piece].piece_type = ROOK
    /\ Len(chess_board.legal_moves) = 14

\* it is Black's turn in a single-player game and Black has a move to make
BlackToMoveInSinglePlayer(cb, mode) ==
    /\ mode = SINGLE_PLAYER
    /\ cb.current_player = BLACK_PIECE
    /\ get_all_valid_moves(cb, BLACK_PIECE) # <<>>

\* C21 as the claim states it: in single-player mode, when the handling of a
\* board click is over it is never Black's turn while Black has a move to
\* make (games entered through a load included), so no click selects or
\* moves a Black piece.
C21_AiMovesAsSoonAsBlackToMove ==
    [][\A sq \in ClickSquares :
          Click(sq[1], sq[2]) => ~BlackToMoveInSinglePlayer(chess_board', game_mode')]_vars

\* `after' is `before' with exactly one entry appended
OneAppended(before, after) ==
    /\ Len(after) = Len(before) + 1
    /\ SubSeq(after, 1, Len(before)) = before

\* C22: move_history is append-only within a game: across every
\* select_piece, move_selected_piece (accepted or rejected) and make_ai_move
\* step the history before the step is a prefix of the history after it,
\* which has exactly one entry more when the step moved a piece and is the
\* same otherwise.  (Each conjunct reads: the history is as required, or the
\* step is not one of that operation.)
C22_MoveHistoryAppendOnly ==
    [][/\ \A sq \in ClickSquares \cup OffBoardSquares :
             \/ chess_board'.move_history = chess_board.move_history
             \/ ~Select(sq[1], sq[2])
       /\ \A sq \in ClickSquares \cup OffBoardSquares :
             \/ IF move_selected_piece(chess_board, sq[1], sq[2]).result
                THEN OneAppended(chess_board.move_history, chess_board'.move_history)
                ELSE chess_board'.move_history = chess_board.move_history
             \/ ~Move(sq[1], sq[2])
       /\ \/ /\ OneAppended(chess_board.move_history, chess_board'.move_history)
             /\ chess_board.current_player = BLACK_PIECE
             /\ make_ai_move(chess_board, 1).result
          \/ /\ chess_board'.move_history = chess_board.move_history
             /\ ~make_ai_move(chess_board, 1).result
          \/ ~AiMove]_vars

\* two moves are recorded, the second one Black's, and White has selected a
\* piece for the third
C22_Witness ==
    /\ Len(chess_board.move_history) = 2
    /\ chess_board.current_player = WHITE_PIECE
    /\ chess_board.selected_piece # None
    /\ chess_board.legal_moves # <<>>
    /\ \E sq \in Squares :
          /\ chess_board.board[sq] # None
          /\ chess_board.pieces[chess_board.board[sq]].color = BLACK_PIECE
          /\ chess_board.pieces[chess_board.board[sq]].has_moved

\* a document a load reads to its end: every cell is null or has its three
\* keys and names a piece class, and the player and the mode are there, the
\* mode null or a GameMode value
WellFormed(data) ==
    /\ {"board", "current_player", "game_mode"} \subseteq DOMAIN data
    /\ \A sq \in Squares :
          \/ data.board[sq] = NullCell
          \/ /\ DOMAIN data.board[sq] = {"color", "type", "has_moved"}
             /\ data.board[sq].type \in PieceTypes
    /\ data.game_mode = <<>> \/ data.game_mode[1] \in GameModeValues

\* C23: a load of a document that is read to its end succeeds, also when the
\* document's game_mode is null; it overwrites the board's game_mode exactly
\* when the document's game_mode is not null (a null one leaves the mode the
\* board had), and it sets move_history to the document's, or to the empty
\* list when the document has no move_history field.  (Stated of load_game
\* called in the current state, which is the step Load takes.)
C23_LoadKeepsModeOnNull ==
    \/ file.kind # "json"
    \/ ~WellFormed(file.data)
    \/ /\ load_game(chess_board, file).result
       /\ Loaded.game_mode = IF file.data.game_mode # <<>>
                             THEN GameModeOf(file.data.game_mode[1])
                             ELSE chess_board.game_mode
       /\ Loaded.move_history = IF "move_history" \in DOMAIN file.data
                                THEN file.data.move_history ELSE <<>>

\* a game with a mode set took the board of the document whose game_mode is
\* null and that has no move_history field: the mode is still set and the
\* history is empty
C23_Witness ==
    /\ file = JsonFile(DocNullMode)
    /\ chess_board.game_mode = MULTIPLAYER
    /\ chess_board.move_history = <<>>
    /\ chess_board.board[<<0, 0>>] = None
    /\ chess_board.board[<<5, 3>>] # None
    /\ chess_board.pieces[chess_board.board[<<5, 3>>]].color = BLACK_PIECE
    /\ chess_board.pieces[chess_board.board[<<5, 3>>]].has_moved

\* the objects of `before' after a call that returned `after': each is still
\* there, its has_moved is true if it was, and it turned true exactly for
\* the object whose stored position the call changed
HasMovedKept(before, after) ==
    \A p \in DOMAIN before.pieces :
        /\ p \in DOMAIN after.pieces
        /\ after.pieces[p].has_moved =
              (\/ before.pieces[p].has_moved
               \/ after.pieces[p].row # before.pieces[p].row
               \/ after.pieces[p].col # before.pieces[p].col)

\* the pawn p has no move that takes it two rows on
NoTwoSquareAdvance(cb, p) ==
    \A i \in 1..Len(get_legal_moves(cb.board, cb.pieces, p)) :
        get_legal_moves(cb.board, cb.pieces, p)[i][1]
            \notin {cb.pieces[p].row + 2, cb.pieces[p].row - 2}

\* C24: has_moved is irreversible: whatever select_piece, move_selected_piece
\* or make_ai_move call is made in the current state, a piece whose
\* has_moved is true keeps it, and has_moved turns true exactly for the piece
\* the call moves; and a pawn whose has_moved is true has no two-square
\* advance among its legal moves.
C24_HasMovedIrreversible ==
    /\ \A sq \in ClickSquares \cup OffBoardSquares :
          /\ HasMovedKept(chess_board, select_piece(chess_board, sq[1], sq[2]).cb)
          /\ HasMovedKept(chess_board, move_selected_piece(chess_board, sq[1], sq[2]).cb)
    /\ \A choice \in RandomChoices(chess_board) :
          HasMovedKept(chess_board, make_ai_move(chess_board, choice).cb)
    /\ \A p \in DOMAIN chess_board.pieces :
          \/ chess_board.pieces[p].piece_type # PAWN
          \/ ~chess_board.pieces[p].has_moved
          \/ NoTwoSquareAdvance(chess_board, p)

\* White's pawn went from e2 to e3 and Black's from e7 to e5: both have moved,
\* the White pawn has a move (to e4) and the pieces behind them have not moved
C24_Witness ==
    /\ Len(chess_board.move_history) = 2
    /\ chess_board.board[<<5, 4>>] # None
    /\ chess_board.pieces[chess_board.board[<<5, 4>>]].piece_type = PAWN
    /\ chess_board.pieces[chess_board.board[<<5, 4>>]].has_moved
    /\ get_legal_moves(chess_board.board, chess_board.pieces,
                       chess_board.board[<<5, 4>>]) = <<<<4, 4>>>>
    /\ chess_board.board[<<3, 4>>] # None
    /\ chess_board.pieces[chess_board.board[<<3, 4>>]].color = BLACK_PIECE
    /\ chess_board.pieces[chess_board.board[<<3, 4>>]].has_moved
    /\ chess_board.board[<<7, 4>>] # None
    /\ ~chess_board.pieces[chess_board.board[<<7, 4>>]].has_moved

SelectionCurrent(cb) ==
    /\ is_valid_position(cb.pieces[cb.selected_piece].row, cb.pieces[cb.selected_piece].col)
    /\ cb.board[<<cb.pieces[cb.selected_piece].row,
                  cb.pieces[cb.selected_piece].col>>] = cb.selected_piece
    /\ cb.pieces[cb.selected_piece].color = cb.current_player
    /\ cb.legal_moves = get_legal_moves(cb.board, cb.pieces, cb.selected_piece)

OtherCellsKept(before, after, from, to) ==
    \A sq \in Squares \ {from, to} : after.board[sq] = before.board[sq]

\* a move took `before' to `after': for some piece m, no cell changed but the
\* one at m's stored position and the one m stands on afterwards, no piece
\* but m changed, m kept its color and kind, and the mode is the same
MoveFrame(before, after) ==
    /\ after.game_mode = before.game_mode
    /\ \E m \in DOMAIN before.pieces :
          /\ m \in DOMAIN after.pieces
          /\ after.pieces[m].color = before.pieces[m].color
          /\ after.pieces[m].piece_type = before.pieces[m].piece_type
          /\ \A p \in DOMAIN before.pieces \ {m} :
                p \in DOMAIN after.pieces /\ after.pieces[p] = before.pieces[p]
          /\ after.board[<<after.pieces[m].row, after.pieces[m].col>>] = m
          /\ OtherCellsKept(before, after,
                            <<before.pieces[m].row, before.pieces[m].col>>,
                            <<after.pieces[m].row, after.pieces[m].col>>)

\* C27: whatever move_selected_piece or make_ai_move call is made in the
\* current state, if it moves a piece then it changes only the cell the piece
\* leaves, the cell it goes to and the piece itself: every other cell holds
\* the piece it held, no other piece's position, color, kind or has_moved
\* changes, and game_mode is unchanged.
C27_MoveFrame ==
    /\ \A sq \in ClickSquares :
          \/ ~move_selected_piece(chess_board, sq[1], sq[2]).result
          \/ MoveFrame(chess_board, move_selected_piece(chess_board, sq[1], sq[2]).cb)
    /\ \A choice \in RandomChoices(chess_board) :
          \/ ~make_ai_move(chess_board, choice).result
          \/ MoveFrame(chess_board, make_ai_move(chess_board, choice).cb)

\* White's pawn took the pawn on d3 in a game with a mode: the knight behind
\* it stands where it stood and has not moved
C27_Witness ==
    /\ chess_board.move_history = <<<<"e", "x", "d", "3">>>>
    /\ chess_board.game_mode # NoMode
    /\ chess_board.board[<<6, 4>>] = None
    /\ chess_board.board[<<5, 3>>] # None
    /\ chess_board.pieces[chess_board.board[<<5, 3>>]].color = WHITE_PIECE
    /\ chess_board.pieces[chess_board.board[<<5, 3>>]].piece_type = PAWN
    /\ chess_board.board[<<7, 4>>] # None
    /\ chess_board.pieces[chess_board.board[<<7, 4>>]].piece_type = KNIGHT
    /\ ~chess_board.pieces[chess_board.board[<<7, 4>>]].has_moved

\* current_player is White when the number of recorded moves is even and
\* Black when it is odd
TurnParity(cb) ==
    cb.current_player = IF Len(cb.move_history) % 2 = 0 THEN WHITE_PIECE ELSE BLACK_PIECE

\* C28: in a game started by new_game and advanced by select_piece,
\* move_selected_piece and make_ai_move only, current_player is White exactly
\* when the length of move_history is even and Black exactly when it is odd.
C28_TurnParity == TurnParity(chess_board)

\* three moves are recorded, the second one made by make_ai_move with a
\* Black piece selected, and it is Black's turn
C28_Witness ==
    /\ Len(chess_board.move_history) = 3
    /\ chess_board.current_player = BLACK_PIECE
    /\ chess_board.board[<<2, 2>>] # None
    /\ chess_board.pieces[chess_board.board[<<2, 2>>]].piece_type = KNIGHT
    /\ chess_board.board[<<4, 4>>] # None

\* the pieces on the board, and those of one color
PieceCount(cb) == Cardinality(Occupied(cb))
ColorCount(cb, color) ==
    Cardinality({sq \in Occupied(cb) : cb.pieces[cb.board[sq]].color = color})

\* every piece of `before' has its color and its kind in `after'
KindsKept(before, after) ==
    \A p \in DOMAIN before.pieces :
        /\ p \in DOMAIN after.pieces
        /\ after.pieces[p].color = before.pieces[p].color
        /\ after.pieces[p].piece_type = before.pieces[p].piece_type

\* a call that did not move a piece left `after': as many pieces as before
NothingTaken(before, after) ==
    /\ PieceCount(after) = PieceCount(before)
    /\ KindsKept(before, after)

\* the move of `mover' to `to' left `after': one piece less when the cell
\* `to' was occupied, and then by a piece of the other color, as many pieces
\* otherwise
MoveTakesAtMostOne(before, after, mover, to) ==
    /\ IF before.board[to] # None
       THEN /\ PieceCount(after) = PieceCount(before) - 1
            /\ before.pieces[before.board[to]].color # before.pieces[mover].color
       ELSE PieceCount(after) = PieceCount(before)
    /\ KindsKept(before, after)

\* the pieces of the board are at most 32, at most 16 of a color
AtMostThirtyTwo(cb) ==
    /\ PieceCount(cb) <= 4 * BOARD_SIZE
    /\ \A color \in Colors : ColorCount(cb, color) <= 2 * BOARD_SIZE

\* the parts of C29 that hold: the bounds on the number of pieces, the calls
\* that move no piece, and the color and kind of every piece after any call
PiecesNeverAdded ==
    /\ AtMostThirtyTwo(chess_board)
    /\ \A sq \in GameSquares :
          /\ NothingTaken(chess_board, select_piece(chess_board, sq[1], sq[2]).cb)
          /\ PieceCount(move_selected_piece(chess_board, sq[1], sq[2]).cb)
                <= PieceCount(chess_board)
          /\ KindsKept(chess_board, move_selected_piece(chess_board, sq[1], sq[2]).cb)
    /\ \A choice \in RandomChoices(chess_board) :
          /\ PieceCount(make_ai_move(chess_board, choice).cb) <= PieceCount(chess_board)
          /\ KindsKept(chess_board, make_ai_move(chess_board, choice).cb)

\* C29 as the claim states it: in a game started by new_game and advanced by
\* select_piece, move_selected_piece and make_ai_move only, the board holds
\* at most 32 pieces, 16 of a color; whatever call is made in the current
\* state, a call that moves no piece leaves the number of pieces as it is, a
\* move to an occupied cell takes exactly one piece, of the color opposite to
\* the moving piece's, a move to an empty cell takes none, and no piece
\* changes color or kind.
C29_PieceConservation ==
    /\ AtMostThirtyTwo(chess_board)
    /\ \A sq \in GameSquares :
          /\ NothingTaken(chess_board, select_piece(chess_board, sq[1], sq[2]).cb)
          /\ IF move_selected_piece(chess_board, sq[1], sq[2]).result
             THEN MoveTakesAtMostOne(chess_board,
                                     move_selected_piece(chess_board, sq[1], sq[2]).cb,
                                     chess_board.selected_piece, sq)
             ELSE NothingTaken(chess_board,
                               move_selected_piece(chess_board, sq[1], sq[2]).cb)
    /\ \A choice \in RandomChoices(chess_board) :
          IF make_ai_move(chess_board, choice).result
          THEN MoveTakesAtMostOne(chess_board, make_ai_move(chess_board, choice).cb,
                                  get_all_valid_moves(chess_board, BLACK_PIECE)[choice][1],
                                  get_all_valid_moves(chess_board, BLACK_PIECE)[choice][2])
          ELSE NothingTaken(chess_board, make_ai_move(chess_board, choice).cb)

\* the cells and the pieces of cb, with nothing selected and nothing recorded
BoardOf(cb) ==
    [cb EXCEPT !.selected_piece = None, !.legal_moves = <<>>,
               !.move_history = <<>>, !.current_player = WHITE_PIECE,
               !.game_mode = NoMode]

\* `after' differs from `before' in the selection and the cache at most
SelectionOnly(before, after) ==
    after = [before EXCEPT !.selected_piece = after.selected_piece,
                           !.legal_moves = after.legal_moves]

\* what the calls of the current state leave as it is: select_piece, which
\* calls get_piece_at and the piece's get_legal_moves, changes the selection
\* and the cache at most, and nothing when it returns False; make_ai_move,
\* which calls get_all_valid_moves, changes nothing when it makes no move;
\* and get_all_valid_moves returns the same sequence for either color
\* whatever is selected, cached, recorded or to move besides the board
ReadOnlyCalls ==
    /\ \A sq \in ClickSquares \cup OffBoardSquares :
          /\ SelectionOnly(chess_board, select_piece(chess_board, sq[1], sq[2]).cb)
          /\ \/ select_piece(chess_board, sq[1], sq[2]).result
             \/ select_piece(chess_board, sq[1], sq[2]).cb = chess_board
    /\ \A choice \in RandomChoices(chess_board) :
          \/ make_ai_move(chess_board, choice).result
          \/ make_ai_move(chess_board, choice).cb = chess_board
    /\ \A color \in Colors :
          get_all_valid_moves(chess_board, color)
              = get_all_valid_moves(BoardOf(chess_board), color)

\* a save_game step, whether it writes the file or fails, leaves the board,
\* the pieces, current_player, game_mode, move_history, the selection and
\* the cache as they are
SaveReadsOnly ==
    \/ chess_board' = chess_board
    \/ ~\E io_ok \in BOOLEAN : Save(io_ok)

\* C30: save_game, get_all_valid_moves, get_piece_at and the pieces'
\* get_legal_moves are read-only: a save, successful or failed, changes
\* nothing of the game, the calls that only read through the other three
\* change nothing but the selection and the cache they are to set, and
\* get_all_valid_moves returns the same ordered sequence on the same board.
C30_ReadOnlyOperations ==
    []ReadOnlyCalls /\ [][SaveReadsOnly]_vars

\* a game in play was saved with a piece selected: the file holds the game,
\* and the selection and its cache are still there
C30_Witness ==
    /\ file.kind = "json"
    /\ chess_board.game_mode # NoMode
    /\ file.data = game_to_dict(chess_board).data
    /\ chess_board.board[<<0, 0>>] # None
    /\ chess_board.selected_piece # None
    /\ chess_board.legal_moves # <<>>

====
